---- MODULE Spec2Model ----
(***************************************************************************)
(* One simulated user session of locustfile.py: on_start / authenticate,   *)
(* the helpers get_headers, validate_response and get_user_accounts, and   *)
(* the three task handlers browse_accounts, view_and_transfer and          *)
(* view_transaction_history.  The backend is the environment: every HTTP   *)
(* response is an input drawn from a small set.  Python values are tagged  *)
(* records, strings are sequences of characters, and dicts are sequences   *)
(* of <<key, value>> pairs in insertion order.                             *)
(***************************************************************************)
EXTENDS Integers, Sequences, FiniteSets, TLC

\* ------------------------------------------------------------------ bounds
\* Longest account list the backend returns.
MaxAccounts == 2

\* ----------------------------------------------------------- Python values
PyNone == [t |-> "none"]
PyInt(n) == [t |-> "int", v |-> n]
PyStr(s) == [t |-> "str", v |-> s]
PyList(s) == [t |-> "list", v |-> s]
PyDict(items) == [t |-> "dict", v |-> items]

\* bool(v): the truth value Python's `if v`, `and`, `not` give a value.
Truthy(x) ==
  CASE x.t = "none" -> FALSE
    [] x.t = "int"  -> x.v # 0
    [] OTHER        -> Len(x.v) > 0

\* Whether len(v) is defined; len() of None or of a number raises TypeError.
Sized(x) == x.t \in {"str", "list", "dict"}

\* Whether v has a .get method; on anything but a dict it raises AttributeError.
HasGet(x) == x.t = "dict"

\* dict.get(key, default)
Get(d, key, default) ==
  IF \E i \in 1..Len(d.v) : d.v[i][1] = key
    THEN d.v[CHOOSE i \in 1..Len(d.v) : d.v[i][1] = key][2]
    ELSE default

\* ----------------------------------------------------------------- strings
S_SUCCESS == <<"S", "U", "C", "C", "E", "S", "S">>
S_success == <<"s", "u", "c", "c", "e", "s", "s">>
S_Successful == <<"S", "u", "c", "c", "e", "s", "s", "f", "u", "l">>
S_FAILED == <<"F", "A", "I", "L", "E", "D">>
S_insufficient == <<"i", "n", "s", "u", "f", "f", "i", "c", "i", "e", "n", "t">>
S_balance == <<"b", "a", "l", "a", "n", "c", "e">>
S_insufficient_balance == <<"i", "n", "s", "u", "f", "f", "i", "c", "i", "e", "n", "t", " ", "b", "a", "l", "a", "n", "c", "e">>
S_Insufficient_Balance == <<"I", "n", "s", "u", "f", "f", "i", "c", "i", "e", "n", "t", " ", "B", "a", "l", "a", "n", "c", "e">>
S_Insufficient_funds == <<"I", "n", "s", "u", "f", "f", "i", "c", "i", "e", "n", "t", " ", "f", "u", "n", "d", "s">>
S_Balance_too_low == <<"B", "a", "l", "a", "n", "c", "e", " ", "t", "o", "o", " ", "l", "o", "w">>
S_Bad_request == <<"B", "a", "d", " ", "r", "e", "q", "u", "e", "s", "t">>
S_jwt == <<"j", "w", "t">>
S_None == <<"N", "o", "n", "e">>
K_jwtToken == <<"j", "w", "t", "T", "o", "k", "e", "n">>
K_user == <<"u", "s", "e", "r">>
K_userId == <<"u", "s", "e", "r", "I", "d">>
K_accountno == <<"a", "c", "c", "o", "u", "n", "t", "n", "o">>
K_transactionStatus == <<"t", "r", "a", "n", "s", "a", "c", "t", "i", "o", "n", "S", "t", "a", "t", "u", "s">>
K_message == <<"m", "e", "s", "s", "a", "g", "e">>
K_error == <<"e", "r", "r", "o", "r">>
LowerChars == <<"a", "b", "c", "d", "e", "f", "g", "h", "i", "j", "k", "l", "m", "n", "o", "p", "q", "r", "s", "t", "u", "v", "w", "x", "y", "z">>
UpperChars == <<"A", "B", "C", "D", "E", "F", "G", "H", "I", "J", "K", "L", "M", "N", "O", "P", "Q", "R", "S", "T", "U", "V", "W", "X", "Y", "Z">>
DigitChars == <<"0", "1", "2", "3", "4", "5", "6", "7", "8", "9">>

\* The characters the strings of the model are written in.
Chars ==
  {LowerChars[i] : i \in 1..Len(LowerChars)} \cup {UpperChars[i] : i \in 1..Len(UpperChars)}
    \cup {DigitChars[i] : i \in 1..Len(DigitChars)}
    \cup {" ", "'", "\"", ",", ":", "{", "}", "[", "]"}

\* str.upper() and str.lower(), character by character.
UpperChar ==
  [c \in Chars |->
     IF \E i \in 1..Len(LowerChars) : LowerChars[i] = c
       THEN UpperChars[CHOOSE i \in 1..Len(LowerChars) : LowerChars[i] = c]
       ELSE c]
LowerChar ==
  [c \in Chars |->
     IF \E i \in 1..Len(UpperChars) : UpperChars[i] = c
       THEN LowerChars[CHOOSE i \in 1..Len(UpperChars) : UpperChars[i] = c]
       ELSE c]
Upper(s) == [i \in 1..Len(s) |-> UpperChar[s[i]]]
Lower(s) == [i \in 1..Len(s) |-> LowerChar[s[i]]]

\* `pat in s` on strings: pat occurs as a contiguous substring of s.
Contains(s, pat) ==
  \E i \in 0..(Len(s) - Len(pat)) : SubSeq(s, i + 1, i + Len(pat)) = pat

\* str(n) of a non-negative integer.
RECURSIVE IntChars(_)
IntChars(n) ==
  IF n < 10 THEN <<DigitChars[n + 1]>>
  ELSE IntChars(n \div 10) \o <<DigitChars[(n % 10) + 1]>>

\* repr(v), as it appears inside the str() of a dict or a list.
RECURSIVE Repr(_)
RECURSIVE ReprItems(_, _)
ReprItems(x, i) ==
  IF i > Len(x.v) THEN <<>>
  ELSE (IF i > 1 THEN <<",", " ">> ELSE <<>>)
       \o (IF x.t = "dict"
             THEN <<"'">> \o x.v[i][1] \o <<"'", ":", " ">> \o Repr(x.v[i][2])
             ELSE Repr(x.v[i]))
       \o ReprItems(x, i + 1)
Repr(x) ==
  CASE x.t = "none" -> S_None
    [] x.t = "int"  -> IntChars(x.v)
    [] x.t = "str"  -> <<"'">> \o x.v \o <<"'">>
    [] x.t = "dict" -> <<"{">> \o ReprItems(x, 1) \o <<"}">>
    [] OTHER        -> <<"[">> \o ReprItems(x, 1) \o <<"]">>

\* str(v)
Str(x) == IF x.t = "str" THEN x.v ELSE Repr(x)

\* ------------------------------------------------------------ HTTP responses
\* A response body: text that does not parse as JSON (response.json() raises
\* JSONDecodeError), or the value response.json() returns.
RawBody(text) == [json |-> FALSE, text |-> text]
JsonBody(data) == [json |-> TRUE, data |-> data]
NoBody == RawBody(<<>>)
Response(status, body) == [status |-> status, body |-> body]

\* Status codes the backend answers with; 0 is the client's "no connection".
ErrorStatuses == {0, 401, 404, 500}

\* TEST_CREDENTIALS and TEST_ACCOUNTS, the static pools.
TEST_CREDENTIALS ==
  << [email |-> "user1@example.com", password |-> "password123"],
     [email |-> "user2@example.com", password |-> "password123"],
     [email |-> "user3@example.com", password |-> "password123"],
     [email |-> "admin@example.com", password |-> "password123"] >>
TEST_ACCOUNTS == <<1000001, 1000002, 1000003>>

\* A request the session sent with catch_response=True, the response it got and
\* how the handler classified it: "success" (response.success()), "failure"
\* (response.failure(..)), or "none" when the with-block was left by an
\* exception before either was called.
Request(name, method, path, arg, headers, payload, resp, verdict) ==
  [name |-> name, method |-> method, path |-> path, arg |-> arg,
   headers |-> headers, payload |-> payload, resp |-> resp, verdict |-> verdict]

\* --------------------------------------------------------------------- state
VARIABLES
  started,    \* on_start has run
  cls,        \* the user class of the session: BrowseUser, ActiveUser, HistoryUser
  token,      \* self.token
  user_id,    \* self.user_id
  accounts,   \* self.accounts
  login,      \* how on_start's login request was classified ("none" before it)
  requests,   \* the requests of the last handler run (on_start or a task), in order
  returned,   \* what each get_user_accounts call of the last task tick returned
  raised      \* the last task tick was left by an uncaught exception

vars == <<started, cls, token, user_id, accounts, login, requests, returned, raised>>

UserClasses == {"BrowseUser", "ActiveUser", "HistoryUser"}

\* The session attributes a helper reads and writes.
Self == [token |-> token, user_id |-> user_id, accounts |-> accounts]

\* --------------------------------------------------------------- get_headers
get_headers(self) ==
  IF Truthy(self.token)
    THEN [ContentType |-> "application/json", Authorization |-> <<"Bearer ", Str(self.token)>>]
    ELSE [ContentType |-> "application/json"]

\* -------------------------------------------------------------- authenticate
\* The responses the login endpoint is given to answer with.
LoginTokens == {PyNone, PyStr(<<>>), PyStr(S_jwt)}
LoginUsers ==
  { PyNone, PyDict(<<>>),
    PyDict(<< <<K_userId, PyInt(0)>> >>), PyDict(<< <<K_userId, PyInt(7)>> >>) }
LoginObjects ==
  { PyDict(<< <<K_jwtToken, tk>>, <<K_user, u>> >>) : tk \in LoginTokens, u \in LoginUsers }
    \cup { PyDict(<< <<K_jwtToken, tk>> >>) : tk \in LoginTokens }
    \cup { PyDict(<< <<K_user, u>> >>) : u \in LoginUsers }
LoginResponses ==
  { Response(s, NoBody) : s \in ErrorStatuses }
    \cup { Response(200, RawBody(S_Bad_request)), Response(200, JsonBody(PyList(<<>>))) }
    \cup { Response(200, JsonBody(d)) : d \in LoginObjects }

\* LoginOk with the user id left out of the test (`if self.token:`).
LoginOk_TokenOnly(self, resp) ==
  IF ~resp.body.json THEN [self |-> self, verdict |-> "failure"]
  ELSE IF ~HasGet(resp.body.data) THEN [self |-> self, verdict |-> "failure"]
  ELSE
    LET tok == Get(resp.body.data, K_jwtToken, PyNone)
        user_data == Get(resp.body.data, K_user, PyDict(<<>>))
        self1 == [self EXCEPT !.token = tok]
    IN  IF ~HasGet(user_data)
          THEN [self |-> self1, verdict |-> "failure"]
          ELSE [self |-> [self1 EXCEPT !.user_id = Get(user_data, K_userId, PyNone)],
                verdict |-> IF Truthy(tok) THEN "success" ELSE "failure"]

\* The body of `if status_code == 200:` in authenticate: what it stores and how
\* it classifies.  The assignments happen in source order, so an exception
\* keeps the ones made before it.
LoginOk(self, resp) ==
  IF ~resp.body.json
    THEN [self |-> self, verdict |-> "failure"]                \* JSONDecodeError
  ELSE IF ~HasGet(resp.body.data)
    THEN [self |-> self, verdict |-> "failure"]                \* AttributeError
  ELSE
    LET response_data == resp.body.data
        tok == Get(response_data, K_jwtToken, PyNone)
        user_data == Get(response_data, K_user, PyDict(<<>>))
        self1 == [self EXCEPT !.token = tok]
    IN  IF ~HasGet(user_data)
          THEN [self |-> self1, verdict |-> "failure"]         \* AttributeError
          ELSE LET uid == Get(user_data, K_userId, PyNone)
                   self2 == [self1 EXCEPT !.user_id = uid]
               IN  [self |-> self2,
                    verdict |-> IF Truthy(tok) /\ Truthy(uid) THEN "success" ELSE "failure"]

authenticate(self, cr, resp) ==
  LET out == IF resp.status = 200 THEN LoginOk(self, resp)
             ELSE [self |-> self, verdict |-> "failure"]
  IN  [self |-> out.self,
       request |-> Request("Auth - Login", "POST", "/api/v1/login", PyNone,
                           <<>>, cr, resp, out.verdict)]

\* on_start: reset the attributes, pick credentials, authenticate.
on_start(cr, resp) ==
  authenticate([token |-> PyNone, user_id |-> PyNone, accounts |-> PyList(<<>>)], cr, resp)

\* --------------------------------------------------------- validate_response
\* success_field is PyNone when the caller passes none.
validate_response(resp, success_field) ==
  IF resp.status = 0 THEN FALSE
  ELSE IF resp.status = 200 THEN
    IF ~resp.body.json THEN TRUE                               \* JSONDecodeError
    ELSE IF ~Truthy(success_field) THEN TRUE
    ELSE IF ~HasGet(resp.body.data) THEN TRUE                  \* AttributeError
    ELSE LET field_value == Get(resp.body.data, success_field.v, PyNone)
         IN  IF Truthy(field_value) /\ Contains(Upper(Str(field_value)), S_SUCCESS)
               THEN TRUE
             ELSE IF Truthy(field_value) THEN FALSE
             ELSE TRUE
  ELSE FALSE

\* --------------------------------------------------------- get_user_accounts
\* An account object of the backend's list; accountno may be missing.
Account(no) ==
  IF no = PyNone THEN PyDict(<<>>) ELSE PyDict(<< <<K_accountno, no>> >>)
AccountNos == {PyNone, PyInt(1), PyInt(2)}
RECURSIVE AccountLists(_)
AccountLists(n) ==
  IF n = 0 THEN {<<>>}
  ELSE LET shorter == AccountLists(n - 1)
       IN  shorter \cup { Append(l, Account(no)) : l \in shorter, no \in AccountNos }
AccountResponses ==
  { Response(s, NoBody) : s \in ErrorStatuses }
    \cup { Response(200, RawBody(S_Bad_request)),
           Response(200, JsonBody(PyNone)),
           Response(200, JsonBody(PyInt(5))),
           Response(200, JsonBody(PyDict(<< <<K_error, PyStr(S_Bad_request)>> >>))) }
    \cup { Response(200, JsonBody(PyList(l))) : l \in AccountLists(MaxAccounts) }

\* Whether this call of get_user_accounts sends the account-list request.
Fetches(self) == Truthy(self.user_id) /\ ~Truthy(self.accounts)

\* The with-block of get_user_accounts: the new cache, the value returned and
\* the classification.  self.accounts is assigned before len() is taken of it.
FetchOutcome(self, resp) ==
  IF resp.status = 200 /\ resp.body.json THEN
    IF Sized(resp.body.data)
      THEN [accounts |-> resp.body.data, ret |-> resp.body.data, verdict |-> "success"]
      ELSE [accounts |-> resp.body.data, ret |-> PyList(<<>>), verdict |-> "none"]  \* TypeError
  ELSE [accounts |-> self.accounts, ret |-> PyList(<<>>), verdict |-> "failure"]

\* get_user_accounts without `if self.accounts: return self.accounts`.
get_user_accounts_NoCache(self, resp) ==
  IF ~Truthy(self.user_id) THEN [self |-> self, ret |-> PyList(<<>>), reqs |-> <<>>]
  ELSE LET out == FetchOutcome(self, resp)
       IN  [self |-> [self EXCEPT !.accounts = out.accounts],
            ret |-> out.ret,
            reqs |-> << Request("Account - Get User Accounts", "GET", "/api/v1/account/user/",
                                self.user_id, get_headers(self), PyNone, resp, out.verdict) >>]

\* get_user_accounts without `if not self.user_id: return []`.
get_user_accounts_NoUserIdGuard(self, resp) ==
  IF Truthy(self.accounts) THEN [self |-> self, ret |-> self.accounts, reqs |-> <<>>]
  ELSE LET out == FetchOutcome(self, resp)
       IN  [self |-> [self EXCEPT !.accounts = out.accounts],
            ret |-> out.ret,
            reqs |-> << Request("Account - Get User Accounts", "GET", "/api/v1/account/user/",
                                self.user_id, get_headers(self), PyNone, resp, out.verdict) >>]

\* resp is the backend's answer, read only when the request is sent.
get_user_accounts(self, resp) ==
  IF ~Truthy(self.user_id) THEN [self |-> self, ret |-> PyList(<<>>), reqs |-> <<>>]
  ELSE IF Truthy(self.accounts) THEN [self |-> self, ret |-> self.accounts, reqs |-> <<>>]
  ELSE LET out == FetchOutcome(self, resp)
       IN  [self |-> [self EXCEPT !.accounts = out.accounts],
            ret |-> out.ret,
            reqs |-> << Request("Account - Get User Accounts", "GET", "/api/v1/account/user/",
                                self.user_id, get_headers(self), PyNone, resp, out.verdict) >>]

\* ------------------------------------------------------------- task handlers
\* What one run of a task handler did: the session attributes it left, the
\* requests it sent, what its get_user_accounts calls returned, and whether an
\* exception left it.
Outcome(self, reqs, rets, exc) ==
  [self |-> self, reqs |-> reqs, rets |-> rets, raised |-> exc]

\* The answers get_user_accounts can meet; one placeholder when it sends nothing.
AccountInputs(self) ==
  IF Fetches(self) THEN AccountResponses ELSE {[status |-> 0, body |-> RawBody(<<>>)]}

\* The indices random.choice(accounts) can pick (one placeholder when nothing
\* is picked).
Choices(accts) ==
  IF accts.t = "list" /\ Len(accts.v) > 0 THEN 1..Len(accts.v) ELSE {1}

\* `else: self.get_user_accounts()` of browse_accounts and view_and_transfer.
SecondFetch(g1, r2) ==
  LET g2 == get_user_accounts(g1.self, r2)
  IN  Outcome(g2.self, g1.reqs \o g2.reqs, <<g1.ret, g2.ret>>, FALSE)

\* BrowseUser ---------------------------------------------------------------
DetailResponses ==
  { Response(s, NoBody) : s \in ErrorStatuses }
    \cup { Response(200, RawBody(S_Bad_request)),
           Response(200, JsonBody(Account(PyInt(1)))) }

\* The status chain of browse_accounts.
DetailVerdict(resp) ==
  IF resp.status = 0 THEN "failure"
  ELSE IF resp.status = 200
    THEN (IF validate_response(resp, PyNone) THEN "success" ELSE "failure")
  ELSE "failure"

\* r1 answers the first get_user_accounts, i is random.choice's pick, r2
\* answers the second request (the account view or the second fetch).
browse_accounts(self, r1, i, r2) ==
  LET g1 == get_user_accounts(self, r1)
      accts == g1.ret
  IN  IF ~Truthy(accts) THEN SecondFetch(g1, r2)
      ELSE IF accts.t # "list"                  \* len() or random.choice raises
        THEN Outcome(g1.self, g1.reqs, <<accts>>, TRUE)
      ELSE
        LET account_no == Get(accts.v[i], K_accountno, PyNone)
        IN  IF Truthy(account_no)
              THEN Outcome(g1.self,
                           g1.reqs \o << Request("Account - View Account Details", "GET",
                                                 "/api/v1/account/", account_no,
                                                 get_headers(g1.self), PyNone, r2,
                                                 DetailVerdict(r2)) >>,
                           <<accts>>, FALSE)
              ELSE Outcome(g1.self, g1.reqs, <<accts>>, FALSE)

\* ActiveUser ---------------------------------------------------------------
TransferStatusValues ==
  { PyNone, PyStr(<<>>), PyStr(S_SUCCESS), PyStr(S_success), PyStr(S_Successful),
    PyStr(S_FAILED), PyInt(1) }
TransferBodies ==
  { RawBody(S_SUCCESS), JsonBody(PyList(<<>>)), JsonBody(PyDict(<<>>)) }
    \cup { JsonBody(PyDict(<< <<K_transactionStatus, v>> >>)) : v \in TransferStatusValues }
BadRequestMessages ==
  { S_insufficient_balance, S_Insufficient_Balance, S_Insufficient_funds,
    S_Balance_too_low, S_Bad_request }
BadRequestBodies ==
  { RawBody(S_Insufficient_Balance), RawBody(S_Bad_request) }
    \cup { JsonBody(PyDict(<< <<K_message, PyStr(m)>> >>)) : m \in BadRequestMessages }
TransferResponses ==
  { Response(s, NoBody) : s \in ErrorStatuses }
    \cup { Response(200, b) : b \in TransferBodies }
    \cup { Response(400, b) : b \in BadRequestBodies }

\* round(random.uniform(1.0, 100.0), 2), in cents: the two ends of the range.
TransferAmounts == {100, 10000}

\* BadRequestVerdict looking for "insufficient" alone.
BadRequestVerdict_InsufficientOnly(resp) ==
  IF ~resp.body.json THEN "failure"
  ELSE IF Contains(Lower(Str(resp.body.data)), S_insufficient) THEN "success" ELSE "failure"

\* `elif status_code == 400:` of view_and_transfer.
BadRequestVerdict(resp) ==
  IF ~resp.body.json THEN "failure"                             \* bare except
  ELSE LET text == Lower(Str(resp.body.data))
       IN  IF Contains(text, S_insufficient) \/ Contains(text, S_balance)
             THEN "success" ELSE "failure"

\* The status chain of view_and_transfer.
TransferVerdict(resp) ==
  IF resp.status = 0 THEN "failure"
  ELSE IF resp.status = 200
    THEN (IF validate_response(resp, PyStr(K_transactionStatus)) THEN "success" ELSE "failure")
  ELSE IF resp.status = 400 THEN BadRequestVerdict(resp)
  ELSE "failure"

\* The list random.choice draws to_account from: the accounts whose accountno
\* differs from from_account's (as indices into accounts).
OtherAccounts(accts, i) ==
  { j \in 1..Len(accts.v) :
      Get(accts.v[j], K_accountno, PyNone) # Get(accts.v[i], K_accountno, PyNone) }

\* The picks random.choice can make for to_account (one placeholder when the
\* handler does not get that far, or the list is empty and the pick raises).
OtherChoices(accts, i) ==
  IF accts.t = "list" /\ Len(accts.v) >= 2 /\ OtherAccounts(accts, i) # {}
    THEN OtherAccounts(accts, i) ELSE {1}

\* r1 answers get_user_accounts, i and j are the picks of from_account and
\* to_account, amt the amount, r2 answers the second request (the transfer or
\* the second fetch).
view_and_transfer(self, r1, i, j, amt, r2) ==
  LET g1 == get_user_accounts(self, r1)
      accts == g1.ret
  IN  IF ~Truthy(accts) THEN SecondFetch(g1, r2)
      ELSE IF ~Sized(accts)                     \* len() raises TypeError
        THEN Outcome(g1.self, g1.reqs, <<accts>>, TRUE)
      ELSE IF Len(accts.v) < 2 THEN SecondFetch(g1, r2)
      ELSE IF accts.t # "list"                  \* random.choice raises
        THEN Outcome(g1.self, g1.reqs, <<accts>>, TRUE)
      ELSE IF OtherAccounts(accts, i) = {}      \* random.choice([]) raises IndexError
        THEN Outcome(g1.self, g1.reqs, <<accts>>, TRUE)
      ELSE
        LET from_account_no == Get(accts.v[i], K_accountno, PyNone)
            to_account_no == Get(accts.v[j], K_accountno, PyNone)
        IN  IF Truthy(from_account_no) /\ Truthy(to_account_no)
              THEN Outcome(g1.self,
                           g1.reqs \o << Request("Account - Transfer Money", "POST",
                                                 "/api/v1/account/transfer", PyNone,
                                                 get_headers(g1.self),
                                                 [fromAccount |-> from_account_no,
                                                  toAccount |-> to_account_no,
                                                  amount |-> amt],
                                                 r2, TransferVerdict(r2)) >>,
                           <<accts>>, FALSE)
              ELSE Outcome(g1.self, g1.reqs, <<accts>>, FALSE)

\* HistoryUser --------------------------------------------------------------
HistoryResponses ==
  { Response(s, NoBody) : s \in ErrorStatuses }
    \cup { Response(200, RawBody(S_Bad_request)),
           Response(200, JsonBody(PyList(<<>>))),
           Response(200, JsonBody(PyDict(<<>>))) }

\* The status chain of view_transaction_history for one of the user's accounts.
HistoryVerdict(resp) ==
  IF resp.status = 0 THEN "failure"
  ELSE IF resp.status = 200
    THEN (IF resp.body.json /\ resp.body.data.t = "list" THEN "success" ELSE "failure")
  ELSE "failure"

\* FallbackVerdict without the 404 (`if status_code == 200:`).
FallbackVerdict_Only200(resp) ==
  IF resp.status = 200 THEN "success" ELSE "failure"

\* The classification of the static-account lookup.
FallbackVerdict(resp) ==
  IF resp.status \in {200, 404} THEN "success" ELSE "failure"

\* r1 answers get_user_accounts, i is the pick among the user's accounts, k the
\* pick among TEST_ACCOUNTS, r2 answers the history request.
view_transaction_history(self, r1, i, k, r2) ==
  LET g1 == get_user_accounts(self, r1)
      accts == g1.ret
  IN  IF ~Truthy(accts)
        THEN Outcome(g1.self,
                     g1.reqs \o << Request("Account - View Transaction History", "GET",
                                           "/api/v1/account/transactions/",
                                           PyInt(TEST_ACCOUNTS[k]), get_headers(g1.self),
                                           PyNone, r2, FallbackVerdict(r2)) >>,
                     <<accts>>, FALSE)
      ELSE IF accts.t # "list"                  \* len() or random.choice raises
        THEN Outcome(g1.self, g1.reqs, <<accts>>, TRUE)
      ELSE
        LET account_no == Get(accts.v[i], K_accountno, PyNone)
        IN  IF Truthy(account_no)
              THEN Outcome(g1.self,
                           g1.reqs \o << Request("Account - View Transaction History", "GET",
                                                 "/api/v1/account/transactions/", account_no,
                                                 get_headers(g1.self), PyNone, r2,
                                                 HistoryVerdict(r2)) >>,
                           <<accts>>, FALSE)
              ELSE Outcome(g1.self, g1.reqs, <<accts>>, FALSE)

\* ------------------------------------------------------------------- actions
Init ==
  /\ started = FALSE
  /\ cls \in UserClasses
  /\ token = PyNone
  /\ user_id = PyNone
  /\ accounts = PyList(<<>>)
  /\ login = "none"
  /\ requests = <<>>
  /\ returned = <<>>
  /\ raised = FALSE

\* The engine starts the session: on_start runs once.  self.email and
\* self.password are read by authenticate alone and live on in its request.
OnStart ==
  /\ ~started
  /\ \E c \in 1..Len(TEST_CREDENTIALS), resp \in LoginResponses :
       LET out == on_start(TEST_CREDENTIALS[c], resp)
       IN  /\ started' = TRUE
           /\ token' = out.self.token
           /\ user_id' = out.self.user_id
           /\ accounts' = out.self.accounts
           /\ login' = out.request.verdict
           /\ requests' = <<out.request>>
           /\ UNCHANGED <<cls, returned, raised>>

\* The end of one task tick: the handler ran to its end (or to an exception,
\* which the engine logs before it schedules the next tick).
Tick(o) ==
  /\ token' = o.self.token
  /\ user_id' = o.self.user_id
  /\ accounts' = o.self.accounts
  /\ requests' = o.reqs
  /\ returned' = o.rets
  /\ raised' = o.raised
  /\ UNCHANGED <<started, cls, login>>

\* The answers the backend can give to the handler's request number n: `probe`
\* is the handler run on a placeholder answer, which shows whether it sends
\* that request and to which endpoint.
NoResponse == Response(0, NoBody)
ResponsesFor(name) ==
  CASE name = "Account - Get User Accounts"    -> AccountResponses
    [] name = "Account - View Account Details" -> DetailResponses
    [] name = "Account - Transfer Money"       -> TransferResponses
    [] OTHER                                   -> HistoryResponses
Answers(probe, n) ==
  IF Len(probe.reqs) >= n THEN ResponsesFor(probe.reqs[n].name) ELSE {NoResponse}
\* The amounts random.uniform can give, when the handler draws one.
Amounts(probe) ==
  IF \E n \in 1..Len(probe.reqs) : probe.reqs[n].name = "Account - Transfer Money"
    THEN TransferAmounts ELSE {0}

BrowseTick ==
  /\ started /\ cls = "BrowseUser"
  /\ \E r1 \in AccountInputs(Self) :
       LET g1 == get_user_accounts(Self, r1)
       IN  \E i \in Choices(g1.ret) :
             \E r2 \in Answers(browse_accounts(Self, r1, i, NoResponse), Len(g1.reqs) + 1) :
               Tick(browse_accounts(Self, r1, i, r2))

ActiveTick ==
  /\ started /\ cls = "ActiveUser"
  /\ \E r1 \in AccountInputs(Self) :
       LET g1 == get_user_accounts(Self, r1)
       IN  \E i \in Choices(g1.ret) :
             \E j \in OtherChoices(g1.ret, i) :
               LET probe == view_and_transfer(Self, r1, i, j, 0, NoResponse)
               IN  \E r2 \in Answers(probe, Len(g1.reqs) + 1), amt \in Amounts(probe) :
                     Tick(view_and_transfer(Self, r1, i, j, amt, r2))

HistoryTick ==
  /\ started /\ cls = "HistoryUser"
  /\ \E r1 \in AccountInputs(Self) :
       LET g1 == get_user_accounts(Self, r1)
       IN  \E i \in Choices(g1.ret) :
             \E k \in (IF Truthy(g1.ret) THEN {1} ELSE 1..Len(TEST_ACCOUNTS)) :
               \E r2 \in Answers(view_transaction_history(Self, r1, i, k, NoResponse),
                                 Len(g1.reqs) + 1) :
                 Tick(view_transaction_history(Self, r1, i, k, r2))

Next == OnStart \/ BrowseTick \/ ActiveTick \/ HistoryTick

Spec == Init /\ [][Next]_vars

\* ==================================================================== claims
FetchName == "Account - Get User Accounts"
TransferName == "Account - Transfer Money"
HistoryName == "Account - View Transaction History"
EmptyList == PyList(<<>>)

\* A task handler has run since on_start (each one calls get_user_accounts first).
Ticked == returned # <<>>
HasAuthorization(r) == "Authorization" \in DOMAIN r.headers
IsFetch(r) == r.name = FetchName
NonEmptyList(x) == x.t = "list" /\ Len(x.v) > 0

\* The body of a response as text: the raw text, or the JSON text of the value.
RECURSIVE JsonText(_)
RECURSIVE JsonItems(_, _)
JsonItems(x, i) ==
  IF i > Len(x.v) THEN <<>>
  ELSE (IF i > 1 THEN <<",", " ">> ELSE <<>>)
       \o (IF x.t = "dict"
             THEN <<"\"">> \o x.v[i][1] \o <<"\"", ":", " ">> \o JsonText(x.v[i][2])
             ELSE JsonText(x.v[i]))
       \o JsonItems(x, i + 1)
JsonText(x) ==
  CASE x.t = "none" -> <<"n", "u", "l", "l">>
    [] x.t = "int"  -> IntChars(x.v)
    [] x.t = "str"  -> <<"\"">> \o x.v \o <<"\"">>
    [] x.t = "dict" -> <<"{">> \o JsonItems(x, 1) \o <<"}">>
    [] OTHER        -> <<"[">> \o JsonItems(x, 1) \o <<"]">>
BodyText(body) == IF body.json THEN JsonText(body.data) ELSE body.text

\* ---- C1
\* A login response carries both credentials of the session: status 200, a JSON
\* object, a non-empty jwtToken and a user object with a non-empty userId.
LoginComplete(resp) ==
  /\ resp.status = 200
  /\ resp.body.json
  /\ resp.body.data.t = "dict"
  /\ Truthy(Get(resp.body.data, K_jwtToken, PyNone))
  /\ Get(resp.body.data, K_user, PyDict(<<>>)).t = "dict"
  /\ Truthy(Get(Get(resp.body.data, K_user, PyDict(<<>>)), K_userId, PyNone))

\* C1: every login response is classified success only when it is a 200 whose
\* JSON object carries a non-empty jwtToken and a non-empty user.userId; a 200
\* missing either, a body that is no JSON object, and every other status are
\* classified failure.
C1_LoginClassification ==
  \A n \in DOMAIN requests :
    requests[n].name = "Auth - Login" =>
      requests[n].verdict = IF LoginComplete(requests[n].resp) THEN "success" ELSE "failure"

\* A 200 login answer with a token and no user id, classified failure.
C1_Witness ==
  \E n \in DOMAIN requests :
    /\ requests[n].name = "Auth - Login"
    /\ requests[n].resp = Response(200, JsonBody(PyDict(<< <<K_jwtToken, PyStr(S_jwt)>> >>)))
    /\ requests[n].verdict = "failure"

\* ---- C2
\* C2: the stored token is absent unless the session's login was classified
\* success (stated for a non-empty token, so that no empty string counts as one).
C2_TokenAbsentUntilLoginSucceeds == login # "success" => ~Truthy(token)

\* ---- C3
\* C3: once the account cache holds a non-empty list, no later handler run
\* sends the account-list request, the cache stays as it is, and every
\* get_user_accounts call returns it.
C3_NoRefetchOncePopulated ==
  [][ (started /\ NonEmptyList(accounts)) =>
        /\ accounts' = accounts
        /\ \A n \in DOMAIN requests' : ~IsFetch(requests'[n])
        /\ \A n \in DOMAIN returned' : returned'[n] = accounts ]_vars

\* A handler ran on a populated cache: it got the list and sent another request.
C3_Witness ==
  /\ NonEmptyList(accounts)
  /\ returned = <<accounts>>
  /\ Len(requests) = 1
  /\ ~IsFetch(requests[1])

\* ---- C4
\* The transactionStatus of a response body, as upper-case text, contains SUCCESS.
StatusSaysSuccess(body) ==
  /\ body.json
  /\ body.data.t = "dict"
  /\ Get(body.data, K_transactionStatus, PyNone).t = "str"
  /\ Contains(Upper(Get(body.data, K_transactionStatus, PyNone).v), S_SUCCESS)

\* C4: a 200 answer to the transfer request is classified success only when
\* its JSON object has a transactionStatus string containing SUCCESS in any
\* letter case; otherwise it is classified failure.
C4_TransferSuccessNeedsStatus ==
  \A n \in DOMAIN requests :
    (requests[n].name = TransferName /\ requests[n].resp.status = 200) =>
      requests[n].verdict = IF StatusSaysSuccess(requests[n].resp.body) THEN "success" ELSE "failure"

C6_HistoryFallback ==
  (cls = "HistoryUser" /\ Ticked /\ returned[1] = EmptyList) =>
    /\ ~raised
    /\ Cardinality({n \in DOMAIN requests : requests[n].name = HistoryName}) = 1
    /\ \A n \in DOMAIN requests :
         requests[n].name = HistoryName =>
           /\ n = Len(requests)
           /\ requests[n].method = "GET"
           /\ requests[n].path = "/api/v1/account/transactions/"
           /\ requests[n].arg \in {PyInt(1000001), PyInt(1000002), PyInt(1000003)}
           /\ requests[n].verdict = "success" <=> requests[n].resp.status \in {200, 404}
           /\ requests[n].verdict = "failure" <=> requests[n].resp.status \notin {200, 404}

\* The fallback lookup of an unauthenticated session answered 404, counted success.
C6_Witness ==
  /\ cls = "HistoryUser"
  /\ returned = <<EmptyList>>
  /\ Len(requests) = 1
  /\ requests[1].name = HistoryName
  /\ requests[1].arg = PyInt(1000003)
  /\ requests[1].resp.status = 404
  /\ requests[1].verdict = "success"

\* ---- C7
\* C7: after a login classified failure the session goes on (a task handler
\* can run) and no request it sends carries an Authorization header.
C7_NoAuthorizationAfterFailedLogin ==
  login = "failure" =>
    /\ ENABLED (BrowseTick \/ ActiveTick \/ HistoryTick)
    /\ \A n \in DOMAIN requests : ~HasAuthorization(requests[n])

\* ---- C8
\* The account numbers of the entries of an account list.
NumbersOf(accts) == { Get(accts.v[i], K_accountno, PyNone) : i \in 1..Len(accts.v) }

\* C8: an ActiveUser handler run sends a transfer only on an account list of at
\* least 2 entries, with fromAccount # toAccount, both numbers of entries of the
\* list; and on every list of at least 2 entries it ends without raising.
C8_TransferDistinctAndNoRaise ==
  (cls = "ActiveUser" /\ Ticked) =>
    /\ \A n \in DOMAIN requests :
         requests[n].name = TransferName =>
           /\ returned[1].t = "list"
           /\ Len(returned[1].v) >= 2
           /\ requests[n].payload.fromAccount # requests[n].payload.toAccount
           /\ requests[n].payload.fromAccount \in NumbersOf(returned[1])
           /\ requests[n].payload.toAccount \in NumbersOf(returned[1])
    /\ (returned[1].t = "list" /\ Len(returned[1].v) >= 2) => ~raised

\* ---- C9
\* The account-list fetch failed: no 200, a 200 whose body is not JSON, or a
\* 200 on which the handler's code raised.
FetchFailed(r) ==
  \/ r.resp.status # 200
  \/ ~r.resp.body.json
  \/ r.verdict # "success"

\* C9: a get_user_accounts call whose fetch fails returns an empty list,
\* classifies the request failure and leaves token and user id unchanged; when
\* every fetch of the handler run failed the account cache is unchanged too.
C9_FailedFetchLeavesSession ==
  [][ \A n \in DOMAIN requests' :
        (IsFetch(requests'[n]) /\ FetchFailed(requests'[n])) =>
          /\ requests'[n].verdict = "failure"
          /\ returned'[n] = EmptyList
          /\ token' = token
          /\ user_id' = user_id
          /\ (\A m \in DOMAIN requests' : IsFetch(requests'[m]) => FetchFailed(requests'[m]))
               => accounts' = accounts ]_vars

\* ---- C10
\* C10: while the user id is absent a handler run gets an empty list from every
\* get_user_accounts call and sends no account-list request: a BrowseUser or
\* ActiveUser run sends nothing, a HistoryUser run sends the one static-account
\* lookup.  With a user id and a cache still empty after the run, a BrowseUser
\* or ActiveUser run has sent the account-list request twice.
C10_RequestsByUserId ==
  Ticked =>
    /\ ~Truthy(user_id) =>
         /\ \A n \in DOMAIN returned : returned[n] = EmptyList
         /\ cls \in {"BrowseUser", "ActiveUser"} => requests = <<>>
         /\ cls = "HistoryUser" =>
              /\ Len(requests) = 1
              /\ requests[1].name = HistoryName
              /\ requests[1].arg \in {PyInt(TEST_ACCOUNTS[k]) : k \in 1..Len(TEST_ACCOUNTS)}
    /\ (Truthy(user_id) /\ ~Truthy(accounts) /\ cls \in {"BrowseUser", "ActiveUser"}) =>
         /\ Len(requests) = 2
         /\ IsFetch(requests[1])
         /\ IsFetch(requests[2])

\* A BrowseUser run of a session without user id: two calls, no request.
C10_Witness ==
  /\ cls = "BrowseUser"
  /\ ~Truthy(user_id)
  /\ returned = <<EmptyList, EmptyList>>
  /\ requests = <<>>
====
